---- MODULE Spec2Model ----
(***************************************************************************)
(* PDR execution dashboards (src/dashboard.py, src/dashboard2.py).         *)
(*                                                                         *)
(* One Streamlit process serves one of the two scripts (app = 1 is         *)
(* dashboard.py, app = 2 is dashboard2.py).  Every page load and every     *)
(* widget interaction re-executes the whole script top to bottom; the      *)
(* only state that survives a run is the st.cache_data memo of load_data   *)
(* (per process) and the widget values (per browser session).              *)
(***************************************************************************)
EXTENDS Integers, Sequences, FiniteSets, TLC

VARIABLES
    app,                \* which script the process serves: 1 or 2
    file,               \* PDR_Marrakech_Safi_Projects.csv on disk
    cache,              \* st.cache_data memo of load_data()
    reads,              \* number of pd.read_csv calls made by the process
    df,                 \* the script's df in the latest run
    selected_province,  \* value of the Province multiselect in the latest run
    selected_sector,    \* value of the Secteur multiselect in the latest run
    out,                \* what the latest run put on the page
    fileAtRun           \* whether the input file existed when the latest run started

vars == <<app, file, cache, reads, df, selected_province, selected_sector, out, fileAtRun>>

(***************************************************************************)
(* Bounds of the model.                                                    *)
(***************************************************************************)
MaxRows == 3        \* longest table built from RowKinds
MaxAlertRows == 6   \* longest table of the alert family (more rows than the cap)
MaxReads == 3       \* read_csv calls followed per process

(***************************************************************************)
(* Literals of the scripts.                                                *)
(***************************************************************************)
BudgetThreshold == 5000000   \* df_filtered["Budget_DH"] > 5000000
HeadLimit == 5               \* .head(5)
Million == 1000000           \* .sum()/1e6
CriticalStatuses == {"Suspendu", "En Retard"}
LateStatus == "En Retard"

(***************************************************************************)
(* Input tables.  A CSV row has the six columns both scripts use.          *)
(***************************************************************************)
Row(p, s, t, b, st, a) ==
    [Province |-> p, Secteur |-> s, Intitule_Projet |-> t,
     Budget_DH |-> b, Statut |-> st, Taux_Avancement |-> a]

RowKinds ==
    { Row("A", "X", "P1", 6 * Million, "En Retard", 40),
      Row("A", "Y", "P2", 1 * Million, "Termine", 100),
      Row("B", "X", "P3", 7 * Million, "Suspendu", 10),
      Row("B", "Y", "P4", 5 * Million, "En Retard", 55),
      Row("B", "Y", "P5", 6 * Million, "Suspendu", 75),
      Row("A", "X", "P6", 7 * Million, "En Cours", 25) }

\* The 3-row scenario table, with the status words of the scripts ...
ScenarioFr ==
    << Row("A", "X", "P1", 6 * Million, "En Retard", 40),
       Row("A", "Y", "P2", 1 * Million, "Termine", 100),
       Row("B", "X", "P3", 7 * Million, "Suspendu", 10) >>

\* ... and with the English status words, as data the file may equally hold.
ScenarioEn ==
    << Row("A", "X", "P1", 6 * Million, "Delayed", 40),
       Row("A", "Y", "P2", 1 * Million, "Completed", 100),
       Row("B", "X", "P3", 7 * Million, "Suspended", 10) >>

GeneralTables == UNION { [1..k -> RowKinds] : k \in 0..MaxRows }

\* Tables with more critical rows than the cap: budgets 6M, 7M, ... ascending,
\* all distinct (tie = 0) or with row `tie` sharing the budget of row tie + 1.
AlertTable(n, tie) ==
    [i \in 1..n |->
        Row("A", "X", "Q", (5 + (IF i = tie THEN i + 1 ELSE i)) * Million,
            IF i % 2 = 0 THEN "Suspendu" ELSE "En Retard", 10 * (i % 10))]

AlertTables == { AlertTable(n, tie) : n \in (HeadLimit + 1)..MaxAlertRows, tie \in 0..HeadLimit }

Tables == GeneralTables \cup AlertTables \cup {ScenarioEn}

\* What the data generation script may write while the process runs.
GeneratedTables == {ScenarioFr, ScenarioEn}

Missing == [kind |-> "missing", rows |-> <<>>]
EmptyFile == [kind |-> "empty", rows |-> <<>>]
Csv(t) == [kind |-> "csv", rows |-> t]

(***************************************************************************)
(* Values of the script variable df.                                       *)
(***************************************************************************)
Unbound == [tag |-> "Unbound", rows |-> <<>>]
NoneValue == [tag |-> "None", rows |-> <<>>]
Frame(rows) == [tag |-> "DataFrame", rows |-> rows]

(***************************************************************************)
(* Loader.                                                                 *)
(***************************************************************************)
\* pd.read_csv(..., sep=";"): raises on a missing or zero-byte file, else the
\* rows under a RangeIndex 0..n-1.
read_csv(f) ==
    IF f.kind = "missing" THEN [exc |-> "FileNotFoundError", rows |-> <<>>]
    ELSE IF f.kind = "empty" THEN [exc |-> "EmptyDataError", rows |-> <<>>]
    ELSE [exc |-> "none",
          rows |-> [i \in 1..Len(f.rows) |->
                       [idx |-> i - 1,
                        Province |-> f.rows[i].Province,
                        Secteur |-> f.rows[i].Secteur,
                        Intitule_Projet |-> f.rows[i].Intitule_Projet,
                        Budget_DH |-> f.rows[i].Budget_DH,
                        Statut |-> f.rows[i].Statut,
                        Taux_Avancement |-> f.rows[i].Taux_Avancement]]]

\* np.random.seed(42) followed by two uniform draws of len(df) samples: row i
\* gets sample i for lat and sample n + i for lon of the seeded stream.  A
\* coordinate is kept as the number of the sample it is computed from.
Enrich(rows) ==
    [i \in 1..Len(rows) |->
        [idx |-> rows[i].idx,
         Province |-> rows[i].Province,
         Secteur |-> rows[i].Secteur,
         Intitule_Projet |-> rows[i].Intitule_Projet,
         Budget_DH |-> rows[i].Budget_DH,
         Statut |-> rows[i].Statut,
         Taux_Avancement |-> rows[i].Taux_Avancement,
         lat |-> i - 1,
         lon |-> Len(rows) + i - 1]]

\* Body of load_data in dashboard.py: FileNotFoundError becomes the value None.
load_data_1(f) ==
    LET r == read_csv(f)
    IN  IF r.exc = "FileNotFoundError" THEN [exc |-> "none", value |-> NoneValue]
        ELSE IF r.exc # "none" THEN [exc |-> r.exc, value |-> Unbound]
        ELSE [exc |-> "none", value |-> Frame(Enrich(r.rows))]

\* Body of load_data in dashboard2.py: every exception of read_csv propagates.
load_data_2(f) ==
    LET r == read_csv(f)
    IN  IF r.exc # "none" THEN [exc |-> r.exc, value |-> Unbound]
        ELSE [exc |-> "none", value |-> Frame(r.rows)]

load_data_body(a, f) == IF a = 1 THEN load_data_1(f) ELSE load_data_2(f)

\* The memo storing the value but never answering from it.
cache_data_rerun(a, c, f) ==
    LET r == load_data_body(a, f)
    IN  [exc |-> r.exc, value |-> r.value,
         cache |-> IF r.exc = "none" THEN [hit |-> TRUE, value |-> r.value] ELSE c,
         read |-> TRUE]

\* The memo keeping tables only: a None result is computed again next time.
cache_data_skip_none(a, c, f) ==
    IF c.hit
    THEN [exc |-> "none", value |-> c.value, cache |-> c, read |-> FALSE]
    ELSE LET r == load_data_body(a, f)
         IN  [exc |-> r.exc, value |-> r.value,
              cache |-> IF r.exc = "none" /\ r.value.tag = "DataFrame"
                        THEN [hit |-> TRUE, value |-> r.value] ELSE c,
              read |-> TRUE]

\* @st.cache_data on a function without arguments: the first call that returns
\* stores its value; a call that raises stores nothing.
cache_data(a, c, f) ==
    IF c.hit
    THEN [exc |-> "none", value |-> c.value, cache |-> c, read |-> FALSE]
    ELSE LET r == load_data_body(a, f)
         IN  [exc |-> r.exc, value |-> r.value,
              cache |-> IF r.exc = "none" THEN [hit |-> TRUE, value |-> r.value] ELSE c,
              read |-> TRUE]

(***************************************************************************)
(* Sidebar filters.                                                        *)
(***************************************************************************)
\* df["Province"].unique() and df["Secteur"].unique(): the multiselect options.
ProvinceOptions(rows) == { rows[i].Province : i \in DOMAIN rows }
SectorOptions(rows) == { rows[i].Secteur : i \in DOMAIN rows }

\* st.sidebar.multiselect(options=..., default=options): the session's stored
\* value once the widget exists, the default (everything) when it is created.
multiselect(options, stored, fresh) == IF fresh THEN options ELSE stored

\* Both masks joined with | instead of &.
FilterEither(rows, P, S) ==
    SelectSeq(rows, LAMBDA r : r.Province \in P \/ r.Secteur \in S)

\* The province mask negated.
FilterInverted(rows, P, S) ==
    SelectSeq(rows, LAMBDA r : r.Province \notin P /\ r.Secteur \in S)

\* df[(df["Province"].isin(P)) & (df["Secteur"].isin(S))]: a boolean mask keeps
\* the rows, their index labels and their order.
Filter(rows, P, S) ==
    SelectSeq(rows, LAMBDA r : r.Province \in P /\ r.Secteur \in S)

(***************************************************************************)
(* Aggregates.                                                             *)
(***************************************************************************)
RECURSIVE SumBudget(_)
\* df_filtered["Budget_DH"].sum(): 0 on an empty column.
SumBudget(rows) ==
    IF rows = <<>> THEN 0 ELSE Head(rows).Budget_DH + SumBudget(Tail(rows))

RECURSIVE SumProgress(_)
SumProgress(rows) ==
    IF rows = <<>> THEN 0 ELSE Head(rows).Taux_Avancement + SumProgress(Tail(rows))

\* Rounding of num/den (num >= 0, den > 0) to the nearest integer, ties to
\* even, as the 'f' format rounds the binary value.  The quotients formatted
\* here are exact in binary whenever they are ties (budgets are whole
\* millions; a mean of fewer than 20 whole percentages ties only on quarters).
RoundHalfEven(num, den) ==
    LET q == num \div den
        r == num % den
    IN  IF 2 * r < den THEN q
        ELSE IF 2 * r > den THEN q + 1
        ELSE IF q % 2 = 0 THEN q ELSE q + 1

\* f"{df_filtered['Budget_DH'].sum()/1e6:.1f} MDH": tenths of a million.
FormatMDH(total) == [unit |-> "MDH", value |-> RoundHalfEven(total * 10, Million)]

\* f"{total_budget:,.0f} DH": whole dirhams.
FormatDH(total) == [unit |-> "DH", value |-> total]

\* Series.mean() formatted with :.1f and a % sign: the mean of an empty column
\* is NaN, which formats as "nan%"; otherwise tenths of a percent.
FormatMean(rows) ==
    IF Len(rows) = 0 THEN [kind |-> "nan", tenths |-> 0]
    ELSE [kind |-> "number", tenths |-> RoundHalfEven(SumProgress(rows) * 10, Len(rows))]

\* len(df_filtered[df_filtered["Statut"] == "En Retard"])
LateCount(rows) == Len(SelectSeq(rows, LAMBDA r : r.Statut = LateStatus))

\* df_filtered.groupby("Province")["Budget_DH"].sum(): one sum per province
\* present in the subset.
BudgetByProvince(rows) ==
    [p \in ProvinceOptions(rows) |->
        SumBudget(SelectSeq(rows, LAMBDA r : r.Province = p))]

\* px.pie(df_filtered, names="Statut"): one slice per status, sized by count.
StatusDistribution(rows) ==
    [s \in { rows[i].Statut : i \in DOMAIN rows } |->
        Len(SelectSeq(rows, LAMBDA r : r.Statut = s))]

\* px.box(df_filtered, x="Secteur", y="Taux_Avancement"): the progress values
\* of each sector present.
ProgressBySector(rows) ==
    [s \in SectorOptions(rows) |->
        LET sub == SelectSeq(rows, LAMBDA r : r.Secteur = s)
        IN  [i \in 1..Len(sub) |-> sub[i].Taux_Avancement]]

\* px.scatter_mapbox(df_filtered, lat, lon, color="Secteur", size="Budget_DH").
MapPoints(rows) ==
    [i \in 1..Len(rows) |->
        [lat |-> rows[i].lat, lon |-> rows[i].lon, color |-> rows[i].Secteur,
         size |-> rows[i].Budget_DH, hover |-> rows[i].Intitule_Projet]]

\* df_filtered.to_csv(index=False, sep=";"): the columns without the index.
to_csv(a, rows) ==
    [i \in 1..Len(rows) |->
        IF a = 1
        THEN [Province |-> rows[i].Province, Secteur |-> rows[i].Secteur,
              Intitule_Projet |-> rows[i].Intitule_Projet,
              Budget_DH |-> rows[i].Budget_DH, Statut |-> rows[i].Statut,
              Taux_Avancement |-> rows[i].Taux_Avancement,
              lat |-> rows[i].lat, lon |-> rows[i].lon]
        ELSE [Province |-> rows[i].Province, Secteur |-> rows[i].Secteur,
              Intitule_Projet |-> rows[i].Intitule_Projet,
              Budget_DH |-> rows[i].Budget_DH, Statut |-> rows[i].Statut,
              Taux_Avancement |-> rows[i].Taux_Avancement]]

(***************************************************************************)
(* Critical projects (dashboard.py only).                                  *)
(***************************************************************************)
\* The mask with >= in place of >.
CriticalMaskInclusive(rows) ==
    SelectSeq(rows, LAMBDA r : r.Statut \in CriticalStatuses /\ r.Budget_DH >= BudgetThreshold)

\* df_filtered[(Statut.isin(["Suspendu", "En Retard"])) & (Budget_DH > 5000000)]
CriticalMask(rows) ==
    SelectSeq(rows, LAMBDA r : r.Statut \in CriticalStatuses /\ r.Budget_DH > BudgetThreshold)

MaxBudget(rows, I) ==
    CHOOSE m \in { rows[i].Budget_DH : i \in I } :
        \A i \in I : rows[i].Budget_DH <= m

MinBudget(rows, I) ==
    CHOOSE m \in { rows[i].Budget_DH : i \in I } :
        \A i \in I : rows[i].Budget_DH >= m

RECURSIVE AscendingOrders(_, _)
\* The sort with ascending=True.
AscendingOrders(rows, I) ==
    IF I = {} THEN { <<>> }
    ELSE LET m == MinBudget(rows, I)
             low == { i \in I : rows[i].Budget_DH = m }
         IN  UNION { { <<rows[i]>> \o t : t \in AscendingOrders(rows, I \ {i}) } : i \in low }

RECURSIVE DescendingOrders(_, _)
\* .sort_values("Budget_DH", ascending=False) with the default kind
\* ("quicksort"), which pandas and numpy document as not stable: the result is
\* some arrangement of the rows with budgets descending; rows of equal budget
\* come in an order the build decides.  The set of all such arrangements of
\* the rows at the positions I.
DescendingOrders(rows, I) ==
    IF I = {} THEN { <<>> }
    ELSE LET m == MaxBudget(rows, I)
             top == { i \in I : rows[i].Budget_DH = m }
         IN  UNION { { <<rows[i]>> \o t : t \in DescendingOrders(rows, I \ {i}) } : i \in top }

\* .head(5) without the cap.
headAll(rows) == rows

\* .head(5)
head(rows) == SubSeq(rows, 1, IF Len(rows) < HeadLimit THEN Len(rows) ELSE HeadLimit)

\* Every value critical_projects can take for one filtered subset.
critical_projects(rows) ==
    LET c == CriticalMask(rows)
    IN  { head(s) : s \in DescendingOrders(c, DOMAIN c) }

\* st.error(f"**{row['Province']}**: {row['Intitulé_Projet']} ({row['Statut']})")
\* for each row of critical_projects.
AlertMessages(crit) ==
    [i \in 1..Len(crit) |->
        [Province |-> crit[i].Province, Intitule_Projet |-> crit[i].Intitule_Projet,
         Statut |-> crit[i].Statut]]

(***************************************************************************)
(* Pages.                                                                  *)
(***************************************************************************)
NoMetric == [unit |-> "", value |-> 0]
NoMean == [kind |-> "", tenths |-> 0]

BlankPage ==
    [kind |-> "blank", rendered |-> {}, message |-> "",
     table |-> <<>>, export |-> <<>>, budget |-> NoMetric, count |-> 0, late |-> 0,
     avg |-> NoMean, map |-> <<>>, critical |-> <<>>, alerts |-> <<>>,
     bar |-> <<>>, box |-> <<>>, pie |-> <<>>]

\* The missing-file branch without st.stop(): the script goes on to
\* df["Province"] and fails there.
MissingSourceNoStop(a) ==
    [BlankPage EXCEPT !.kind = "exception", !.rendered = {"error", "exception"},
                      !.message = IF a = 1 THEN "TypeError" ELSE "NameError"]

\* st.error(...) followed by st.stop(): dashboard.py on df is None,
\* dashboard2.py in its except FileNotFoundError clause.
MissingSourcePage(a) ==
    [BlankPage EXCEPT !.kind = "error", !.rendered = {"error"},
                      !.message = IF a = 1 THEN "Veuillez generer le fichier CSV"
                                           ELSE "File not found"]

\* An exception nothing catches: Streamlit shows it and the run ends.
ExceptionPage(e) ==
    [BlankPage EXCEPT !.kind = "exception", !.rendered = {"exception"}, !.message = e]

\* dashboard.py with the bar chart grouped over df instead of df_filtered.
Dashboard1Raw(rows, d, crit) ==
    [kind |-> "dashboard",
     rendered |-> {"filters", "export", "kpi", "map", "alerts", "bar", "box", "pie", "table"},
     message |-> "",
     table |-> d, export |-> to_csv(1, d), budget |-> FormatMDH(SumBudget(d)),
     count |-> Len(d), late |-> LateCount(d), avg |-> FormatMean(d),
     map |-> MapPoints(d), critical |-> crit, alerts |-> AlertMessages(crit),
     bar |-> BudgetByProvince(rows), box |-> ProgressBySector(d),
     pie |-> StatusDistribution(d)]

\* dashboard.py from the export step to st.dataframe(df_filtered).
Dashboard1(rows, d, crit) ==
    [kind |-> "dashboard",
     rendered |-> {"filters", "export", "kpi", "map", "alerts", "bar", "box", "pie", "table"},
     message |-> "",
     table |-> d, export |-> to_csv(1, d), budget |-> FormatMDH(SumBudget(d)),
     count |-> Len(d), late |-> LateCount(d), avg |-> FormatMean(d),
     map |-> MapPoints(d), critical |-> crit, alerts |-> AlertMessages(crit),
     bar |-> BudgetByProvince(d), box |-> ProgressBySector(d),
     pie |-> StatusDistribution(d)]

\* dashboard2.py from the KPIs to st.dataframe(df_filtered).
Dashboard2(rows, d) ==
    [BlankPage EXCEPT
        !.kind = "dashboard",
        !.rendered = {"filters", "kpi", "bar", "pie", "table"},
        !.table = d, !.budget = FormatDH(SumBudget(d)), !.count = Len(d),
        !.avg = FormatMean(d), !.bar = BudgetByProvince(d),
        !.pie = StatusDistribution(d)]

(***************************************************************************)
(* One execution of the script: everything a run can leave behind.         *)
(***************************************************************************)
Outcome(l, value, page, P, S) ==
    [cache |-> l.cache, read |-> l.read, df |-> value, out |-> page, P |-> P, S |-> S]

Script(a, c, f, storedP, storedS, fresh) ==
    LET l == cache_data(a, c, f)
    IN  IF a = 2 /\ l.exc = "FileNotFoundError"
        THEN { Outcome(l, Unbound, MissingSourcePage(a), {}, {}) }
        ELSE IF l.exc # "none"
        THEN { Outcome(l, Unbound, ExceptionPage(l.exc), {}, {}) }
        ELSE IF l.value.tag = "None"
        THEN { Outcome(l, l.value, MissingSourcePage(a), {}, {}) }
        ELSE LET rows == l.value.rows
                 P == multiselect(ProvinceOptions(rows), storedP, fresh)
                 S == multiselect(SectorOptions(rows), storedS, fresh)
                 d == Filter(rows, P, S)
             IN  IF a = 1
                 THEN { Outcome(l, l.value, Dashboard1(rows, d, crit), P, S) :
                            crit \in critical_projects(d) }
                 ELSE { Outcome(l, l.value, Dashboard2(rows, d), P, S) }

\* The run as a step of the process.
Run(storedP, storedS, fresh) ==
    \E o \in Script(app, cache, file, storedP, storedS, fresh) :
        /\ o.read => reads < MaxReads
        /\ cache' = o.cache
        /\ reads' = IF o.read THEN reads + 1 ELSE reads
        /\ df' = o.df
        /\ out' = o.out
        /\ selected_province' = o.P
        /\ selected_sector' = o.S
        /\ fileAtRun' = (file.kind # "missing")
        /\ UNCHANGED <<app, file>>

(***************************************************************************)
(* The process.                                                            *)
(***************************************************************************)
Init ==
    /\ app \in {1, 2}
    /\ file \in {Missing, EmptyFile} \cup { Csv(t) : t \in Tables }
    /\ cache = [hit |-> FALSE, value |-> Unbound]
    /\ reads = 0
    /\ df = Unbound
    /\ selected_province = {}
    /\ selected_sector = {}
    /\ out = BlankPage
    /\ fileAtRun = FALSE

\* A browser opens the page: a new session, no widget has a value yet.
OpenPage == Run({}, {}, TRUE)

\* The user asks for a rerun: the widgets keep the session's values, and are
\* created with their defaults if no run of the session has drawn them.
Rerun ==
    /\ out.kind # "blank"
    /\ Run(selected_province, selected_sector, out.kind # "dashboard")

\* The user changes the Province multiselect.
SelectProvince ==
    /\ out.kind = "dashboard"
    /\ \E P \in SUBSET ProvinceOptions(df.rows) :
        /\ P # selected_province
        /\ Run(P, selected_sector, FALSE)

\* The user changes the Secteur multiselect.
SelectSector ==
    /\ out.kind = "dashboard"
    /\ \E S \in SUBSET SectorOptions(df.rows) :
        /\ S # selected_sector
        /\ Run(selected_province, S, FALSE)

\* The data generation script (re)writes the file.
GenerateFile ==
    /\ \E t \in GeneratedTables :
        /\ file # Csv(t)
        /\ file' = Csv(t)
    /\ UNCHANGED <<app, cache, reads, df, selected_province, selected_sector, out, fileAtRun>>

\* The file is removed.
DeleteFile ==
    /\ file.kind # "missing"
    /\ file' = Missing
    /\ UNCHANGED <<app, cache, reads, df, selected_province, selected_sector, out, fileAtRun>>

\* The file is left with no bytes in it.
TruncateFile ==
    /\ file.kind = "csv"
    /\ file' = EmptyFile
    /\ UNCHANGED <<app, cache, reads, df, selected_province, selected_sector, out, fileAtRun>>

Next ==
    \/ OpenPage
    \/ Rerun
    \/ SelectProvince
    \/ SelectSector
    \/ GenerateFile
    \/ DeleteFile
    \/ TruncateFile

Spec == Init /\ [][Next]_vars

(***************************************************************************)
(* Properties.                                                             *)
(***************************************************************************)
Shown == out.kind = "dashboard"

\* The loaded table as file content: the six CSV columns of every row.
CsvOf(rows) ==
    [i \in 1..Len(rows) |->
        Row(rows[i].Province, rows[i].Secteur, rows[i].Intitule_Projet,
            rows[i].Budget_DH, rows[i].Statut, rows[i].Taux_Avancement)]

\* Positions of the loaded table the current selection keeps.
Kept(T, P, S) == { j \in DOMAIN T : T[j].Province \in P /\ T[j].Secteur \in S }

RECURSIVE BudgetAt(_, _)
BudgetAt(T, J) ==
    IF J = {} THEN 0
    ELSE LET j == CHOOSE k \in J : TRUE
         IN  T[j].Budget_DH + BudgetAt(T, J \ {j})

RECURSIVE ProgressAt(_, _)
ProgressAt(T, J) ==
    IF J = {} THEN 0
    ELSE LET j == CHOOSE k \in J : TRUE
         IN  T[j].Taux_Avancement + ProgressAt(T, J \ {j})

\* C1: in both dashboards the filtered subset (the table every view is drawn
\* from) is exactly the rows of the loaded table whose Province is selected and
\* whose Secteur is selected: each row of it is a row of the table satisfying
\* the predicate, each such row of the table occurs in it exactly once, the
\* rows are in the table's order, and the selections are subsets of the
\* table's distinct values.
C1_FilterExact ==
    Shown =>
        LET T == df.rows
            f == out.table
        IN  /\ selected_province \subseteq ProvinceOptions(T)
            /\ selected_sector \subseteq SectorOptions(T)
            /\ \A i \in DOMAIN f :
                /\ f[i].Province \in selected_province
                /\ f[i].Secteur \in selected_sector
                /\ \E j \in DOMAIN T : T[j] = f[i]
            /\ \A j \in Kept(T, selected_province, selected_sector) :
                Cardinality({ i \in DOMAIN f : f[i] = T[j] }) = 1
            /\ \A i, k \in DOMAIN f : i < k => f[i].idx < f[k].idx

\* A run of dashboard2.py whose selection keeps some rows and drops others.
C1_Witness ==
    /\ Shown /\ app = 2
    /\ selected_province # ProvinceOptions(df.rows)
    /\ selected_sector # SectorOptions(df.rows)
    /\ Len(out.table) >= 1
    /\ Len(out.table) + 2 <= Len(df.rows)

StableRank(c, k) ==
    Cardinality({ m \in DOMAIN c :
        \/ c[m].Budget_DH > c[k].Budget_DH
        \/ (c[m].Budget_DH = c[k].Budget_DH /\ m < k) }) + 1

\* C3: the critical-project list is the first 5 rows of the qualifying rows
\* ordered by budget descending with rows of equal budget in their order in
\* the filtered subset.
C3_StableOrder ==
    (Shown /\ app = 1) =>
        LET c == CriticalMask(out.table)
        IN  \A k \in DOMAIN c :
                StableRank(c, k) <= HeadLimit =>
                    /\ StableRank(c, k) \in DOMAIN out.critical
                    /\ out.critical[StableRank(c, k)] = c[k]

\* C4: in both dashboards, a run that has no memoized table and finds the
\* input file absent shows the error message and nothing else: no filter
\* widget, KPI, chart, alert, table or export, and no unhandled exception.
C4_MissingHalts ==
    (out.kind # "blank" /\ ~fileAtRun /\ df.tag # "DataFrame") =>
        /\ out.kind = "error"
        /\ out.rendered = {"error"}
        /\ out = [BlankPage EXCEPT !.kind = "error", !.rendered = {"error"},
                                   !.message = out.message]

\* dashboard2.py found the file absent in two runs in a row.
C4_Witness ==
    /\ app = 2 /\ out.kind = "error" /\ ~fileAtRun /\ reads = 2

\* C5: on an empty filtered subset the average progress shown is a "no data"
\* result, neither a number nor not-a-number, the total budget shown is 0 and
\* the project count is 0.
C5_EmptyNoData ==
    (Shown /\ Len(out.table) = 0) =>
        /\ out.avg.kind \notin {"number", "nan"}
        /\ out.budget.value = 0
        /\ out.count = 0

\* C6: every view of a run is computed from the rows of the loaded table that
\* the current selection keeps: the table and the export are those rows, the
\* count their number, the total budget and the average progress their sum and
\* mean (as formatted), the per-province sums and the status distribution are
\* grouped over them, and the critical list holds min(5, n) distinct rows out
\* of the n of them that qualify.  On the 3-row scenario table with Province =
\* {A} the per-province sums are {A: 7,000,000} and no row of province B is in
\* the critical list.
C6_ViewsFromCurrentSubset ==
    Shown =>
        LET T == cache.value.rows
            J == Kept(T, selected_province, selected_sector)
            sum == BudgetAt(T, J)
            n == Cardinality(J)
            Q == { j \in J : T[j].Statut \in {"Suspendu", "En Retard"}
                             /\ T[j].Budget_DH > BudgetThreshold }
        IN  /\ cache.hit /\ cache.value = df
            /\ Len(out.table) = n
            /\ { out.table[i] : i \in DOMAIN out.table } = { T[j] : j \in J }
            /\ out.count = n
            /\ IF app = 2
               THEN out.budget = [unit |-> "DH", value |-> sum]
               ELSE /\ out.budget.unit = "MDH"
                    /\ 2 * (out.budget.value * Million - 10 * sum) <= Million
                    /\ 2 * (10 * sum - out.budget.value * Million) <= Million
            /\ IF n = 0
               THEN out.avg.kind = "nan"
               ELSE /\ out.avg.kind = "number"
                    /\ 2 * (out.avg.tenths * n - 10 * ProgressAt(T, J)) <= n
                    /\ 2 * (10 * ProgressAt(T, J) - out.avg.tenths * n) <= n
            /\ DOMAIN out.bar = { T[j].Province : j \in J }
            /\ \A p \in DOMAIN out.bar :
                out.bar[p] = BudgetAt(T, { j \in J : T[j].Province = p })
            /\ DOMAIN out.pie = { T[j].Statut : j \in J }
            /\ \A st \in DOMAIN out.pie :
                out.pie[st] = Cardinality({ j \in J : T[j].Statut = st })
            /\ app = 1 =>
                /\ Len(out.export) = n
                /\ \A i \in DOMAIN out.export :
                    /\ CsvOf(out.export)[i] = CsvOf(out.table)[i]
                    /\ out.export[i].lat = out.table[i].lat
                    /\ out.export[i].lon = out.table[i].lon
                /\ out.late = Cardinality({ j \in J : T[j].Statut = "En Retard" })
                /\ Len(out.critical) = (IF Cardinality(Q) < HeadLimit
                                        THEN Cardinality(Q) ELSE HeadLimit)
                /\ \A k \in DOMAIN out.critical : \E j \in Q : T[j] = out.critical[k]
                /\ \A k, m \in DOMAIN out.critical :
                    k # m => out.critical[k] # out.critical[m]
                /\ Len(out.alerts) = Len(out.critical)
            /\ (CsvOf(T) \in {ScenarioFr, ScenarioEn} /\ selected_province = {"A"}
                    /\ selected_sector = {"X", "Y"}) =>
                /\ out.bar = ("A" :> 7 * Million)
                /\ \A k \in DOMAIN out.critical : out.critical[k].Province # "B"

\* dashboard.py on the scenario table after province B was deselected.
C6_Witness ==
    /\ Shown /\ app = 1
    /\ CsvOf(df.rows) = ScenarioFr
    /\ selected_province = {"A"} /\ selected_sector = {"X", "Y"}
    /\ out.bar = ("A" :> 7 * Million)
    /\ Len(out.critical) = 1
    /\ out.count = 2

\* C7: a run whose selections are subsets of those of the run before it never
\* shows a larger total budget (all budgets of the tables are non-negative).
C7_BudgetMonotone ==
    [][ ( /\ Shown /\ out'.kind = "dashboard"
          /\ \A i \in DOMAIN df.rows : df.rows[i].Budget_DH >= 0
          /\ selected_province' \subseteq selected_province
          /\ selected_sector' \subseteq selected_sector )
        => out'.budget.value <= out.budget.value ]_vars

\* A deselection has brought the total shown below the total of the table.
C7_Witness ==
    /\ Shown /\ app = 2
    /\ selected_province # ProvinceOptions(df.rows)
    /\ out.budget.value > 0
    /\ out.budget.value < SumBudget(df.rows)

C9_LoadedOnce ==
    [][ df.tag = "DataFrame"
        => /\ reads' = reads
           /\ df' = df
           /\ cache' = cache
           /\ cache.value = df ]_vars

\* A filtered run served from the memo while the file is gone.
C9_Witness ==
    /\ Shown /\ ~fileAtRun /\ reads = 1
    /\ selected_province # ProvinceOptions(df.rows)

\* C10: in dashboard.py, once a run has got None from load_data, every later
\* step leaves the number of reads and df as they are and the page is the
\* missing-file message, whatever has happened to the file.
C10_NotFoundMemoized ==
    [][ (app = 1 /\ df.tag = "None")
        => /\ reads' = reads
           /\ df' = df
           /\ out'.kind = "error"
           /\ out'.rendered = {"error"} ]_vars

\* A run that started with the file present and still halted on the message.
C10_Witness ==
    /\ app = 1 /\ df.tag = "None" /\ fileAtRun
    /\ file.kind = "csv" /\ out.kind = "error" /\ reads = 1

====
